---- MODULE Spec2Model ----
(***************************************************************************)
(* The Node native-addon bridge of tree-sitter-coral                       *)
(* (packages/tree-sitter-coral/bindings/node/binding.cc).                  *)
(*                                                                         *)
(*   7  Napi::Object Init(Napi::Env env, Napi::Object exports) {           *)
(*   8      exports["name"] = Napi::String::New(env, "coral");             *)
(*   9      auto language = Napi::External<TSLanguage>::New(env,           *)
(*                                           tree_sitter_coral());         *)
(*  10      exports["language"] = language;                                *)
(*  11      return exports;                                                *)
(*  12  }                                                                  *)
(*  14  NODE_API_MODULE(tree_sitter_coral_binding, Init)                   *)
(*                                                                         *)
(* One invocation of Init is a process that walks through lines 8..11.     *)
(* The host may load the module several times (one invocation per load);   *)
(* invocations of different threads interleave statement by statement, but *)
(* a JavaScript object belongs to one thread, so two invocations that are  *)
(* in flight at the same time never work on the same exports container.    *)
(***************************************************************************)
EXTENDS Integers, FiniteSets, TLC

\* Bounds of the model.
NumInvocations == 2
NumContainers == 2

Invocations == 1..NumInvocations
Containers == 1..NumContainers

\* The null pointer, and the addresses an automaton can live at: every call of
\* the entry point constructs at most one, so NumInvocations addresses suffice.
NULL == 0
Pointers == 0..NumInvocations

Keys == {"name", "language", "other"}
Descriptor == {"name", "language"}

\* JavaScript values as the bridge sees them.
Undefined == [type |-> "undefined", str |-> "", data |-> NULL]
Legacy == [type |-> "string", str |-> "legacy", data |-> NULL]

\* Napi::String::New(env, s): a JavaScript string holding s.
StringNew(s) == [type |-> "string", str |-> s, data |-> NULL]

\* A variant of ExternalNew that wraps nothing: the pointer is dropped.
ExternalNewEmpty(p) == [type |-> "external", str |-> "", data |-> NULL]

\* Napi::External<TSLanguage>::New(env, p): an external value wrapping the
\* pointer p unchanged; a null p is wrapped like any other.
ExternalNew(p) == [type |-> "external", str |-> "", data |-> p]

\* A variant of SetProperty that replaces the object's properties by the one set.
SetPropertyClobber(obj, k, v) == [x \in {k} |-> v]

\* exports[k] = v on a JavaScript object: k is added or overwritten, every other
\* property stays.
SetProperty(obj, k, v) ==
    [x \in (DOMAIN obj) \cup {k} |-> IF x = k THEN v ELSE obj[x]]

\* The objects a host can hand to Init: the usual fresh empty module.exports,
\* one that already carries an unrelated property, and one that already carries
\* (stale) properties under the descriptor's own keys.
EmptyObject == [x \in {} |-> Legacy]
InitialObjects ==
    { EmptyObject,
      [x \in {"other"} |-> Legacy],
      [x \in Keys |-> Legacy] }

\* The external library's static state: whether the automaton has been
\* constructed, the handle of the last construction, and the automatons alive.
LibInit == [built |-> FALSE, handle |-> NULL, live |-> {}]

\* The address of the next automaton the library constructs.
Fresh(l) == Cardinality(l.live) + 1

\* tree_sitter_coral(): the outcomes of one call, each the returned handle and
\* the library's state after it.  A cached library constructs once and returns
\* that handle ever after; one that is not constructs anew on every call.  A
\* construction may come out degenerate (a null handle).
TreeSitterCoral(l, isCached) ==
    IF isCached /\ l.built
    THEN { [ret |-> l.handle, lib |-> l] }
    ELSE { [ret |-> p,
            lib |-> [built |-> TRUE, handle |-> p,
                     live |-> l.live \cup ({p} \ {NULL})]] :
           p \in {NULL, Fresh(l)} }

VARIABLES
    exports,    \* exports[c]: the properties of container c
    pc,         \* pc[i]: where invocation i stands
    arg,        \* arg[i]: the container passed to invocation i as `exports`
    entry,      \* entry[i]: the properties of that container at entry
    language,   \* language[i]: the local `language` of line 9
    got,        \* got[i]: the pointer tree_sitter_coral() returned to i
    calls,      \* calls[i]: how often i has called tree_sitter_coral()
    ret,        \* ret[i]: the container i returned (0: nothing returned)
    lib,        \* the external library's static state
    cached,     \* whether the entry point caches its handle
    resolved,   \* whether the symbol tree_sitter_coral resolves
    bindNow,    \* whether the loader binds symbols at load (else at first call)
    alive       \* whether the process is still running

vars == << exports, pc, arg, entry, language, got, calls, ret,
           lib, cached, resolved, bindNow, alive >>

InFlight(i) == pc[i] \in {"L8", "L9", "L10", "L11"}

TypeOK ==
    /\ pc \in [Invocations ->
                {"idle", "L8", "L9", "L10", "L11", "done", "loadfailed", "killed"}]
    /\ arg \in [Invocations -> Containers \cup {0}]
    /\ got \in [Invocations -> Pointers]
    /\ calls \in [Invocations -> 0..1]
    /\ ret \in [Invocations -> Containers \cup {0}]
    /\ \A c \in Containers : DOMAIN exports[c] \subseteq Keys

Init ==
    /\ exports \in [Containers -> InitialObjects]
    /\ pc = [i \in Invocations |-> "idle"]
    /\ arg = [i \in Invocations |-> 0]
    /\ entry = [i \in Invocations |-> EmptyObject]
    /\ language = [i \in Invocations |-> Undefined]
    /\ got = [i \in Invocations |-> NULL]
    /\ calls = [i \in Invocations |-> 0]
    /\ ret = [i \in Invocations |-> 0]
    /\ lib = LibInit
    /\ cached \in BOOLEAN
    /\ resolved \in BOOLEAN
    /\ bindNow \in BOOLEAN
    /\ alive = TRUE

\* The host loads the module and calls the registered Init with container c.
Load(i, c) ==
    /\ alive
    /\ pc[i] = "idle"
    /\ resolved \/ ~bindNow
    /\ \A j \in Invocations : InFlight(j) => arg[j] # c
    /\ pc' = [pc EXCEPT ![i] = "L8"]
    /\ arg' = [arg EXCEPT ![i] = c]
    /\ entry' = [entry EXCEPT ![i] = exports[c]]
    /\ UNCHANGED << exports, language, got, calls, ret, lib, cached, resolved,
                    bindNow, alive >>

\* The symbol is missing and the loader binds at load: the load fails, Init is
\* never entered.
LoadFail(i) ==
    /\ alive
    /\ pc[i] = "idle"
    /\ ~resolved /\ bindNow
    /\ pc' = [pc EXCEPT ![i] = "loadfailed"]
    /\ UNCHANGED << exports, arg, entry, language, got, calls, ret,
                    lib, cached, resolved, bindNow, alive >>

\* A variant of line 8 that also publishes the library's current static handle,
\* before the entry point has been called.
Line8Eager(i) ==
    /\ alive
    /\ pc[i] = "L8"
    /\ exports' = [exports EXCEPT
                     ![arg[i]] = SetProperty(
                                    SetProperty(@, "name", StringNew("coral")),
                                    "language", ExternalNew(lib.handle))]
    /\ pc' = [pc EXCEPT ![i] = "L9"]
    /\ UNCHANGED << arg, entry, language, got, calls, ret, lib,
                    cached, resolved, bindNow, alive >>

\* Line 8: exports["name"] = Napi::String::New(env, "coral");
Line8(i) ==
    /\ alive
    /\ pc[i] = "L8"
    /\ exports' = [exports EXCEPT
                     ![arg[i]] = SetProperty(@, "name", StringNew("coral"))]
    /\ pc' = [pc EXCEPT ![i] = "L9"]
    /\ UNCHANGED << arg, entry, language, got, calls, ret, lib,
                    cached, resolved, bindNow, alive >>

\* A variant of line 9 that wraps the address of a copy of its own (here: one
\* address per invocation) instead of the pointer the entry point returned.
Line9Copy(i) ==
    /\ alive
    /\ pc[i] = "L9"
    /\ resolved
    /\ \E r \in TreeSitterCoral(lib, cached) :
         /\ lib' = r.lib
         /\ got' = [got EXCEPT ![i] = r.ret]
         /\ language' = [language EXCEPT ![i] = ExternalNew(i)]
    /\ calls' = [calls EXCEPT ![i] = @ + 1]
    /\ pc' = [pc EXCEPT ![i] = "L10"]
    /\ UNCHANGED << exports, arg, entry, ret, cached, resolved,
                    bindNow, alive >>

\* A variant of line 9 whose call goes through although the symbol is missing
\* (a weak reference): it yields a null handle.
Line9Weak(i) ==
    /\ alive
    /\ pc[i] = "L9"
    /\ \E r \in (IF resolved THEN TreeSitterCoral(lib, cached)
                              ELSE { [ret |-> NULL, lib |-> lib] }) :
         /\ lib' = r.lib
         /\ got' = [got EXCEPT ![i] = r.ret]
         /\ language' = [language EXCEPT ![i] = ExternalNew(r.ret)]
    /\ calls' = [calls EXCEPT ![i] = @ + 1]
    /\ pc' = [pc EXCEPT ![i] = "L10"]
    /\ UNCHANGED << exports, arg, entry, ret, cached, resolved,
                    bindNow, alive >>

\* A variant of line 9 that keeps `language` in a static shared by all
\* invocations instead of a local.
Line9Shared(i) ==
    /\ alive
    /\ pc[i] = "L9"
    /\ resolved
    /\ \E r \in TreeSitterCoral(lib, cached) :
         /\ lib' = r.lib
         /\ got' = [got EXCEPT ![i] = r.ret]
         /\ language' = [j \in Invocations |-> ExternalNew(r.ret)]
    /\ calls' = [calls EXCEPT ![i] = @ + 1]
    /\ pc' = [pc EXCEPT ![i] = "L10"]
    /\ UNCHANGED << exports, arg, entry, ret, cached, resolved,
                    bindNow, alive >>

\* A variant of line 9 that calls the entry point twice (once to test the
\* handle, once to wrap it).
Line9Twice(i) ==
    /\ alive
    /\ pc[i] = "L9"
    /\ resolved
    /\ \E q \in TreeSitterCoral(lib, cached) :
         \E r \in TreeSitterCoral(q.lib, cached) :
           /\ lib' = r.lib
           /\ got' = [got EXCEPT ![i] = r.ret]
           /\ language' = [language EXCEPT ![i] = ExternalNew(r.ret)]
    /\ calls' = [calls EXCEPT ![i] = @ + 2]
    /\ pc' = [pc EXCEPT ![i] = "L10"]
    /\ UNCHANGED << exports, arg, entry, ret, cached, resolved,
                    bindNow, alive >>

\* Line 9: auto language = Napi::External<TSLanguage>::New(env, tree_sitter_coral());
Line9(i) ==
    /\ alive
    /\ pc[i] = "L9"
    /\ resolved
    /\ \E r \in TreeSitterCoral(lib, cached) :
         /\ lib' = r.lib
         /\ got' = [got EXCEPT ![i] = r.ret]
         /\ language' = [language EXCEPT ![i] = ExternalNew(r.ret)]
    /\ calls' = [calls EXCEPT ![i] = @ + 1]
    /\ pc' = [pc EXCEPT ![i] = "L10"]
    /\ UNCHANGED << exports, arg, entry, ret, cached, resolved,
                    bindNow, alive >>

\* Line 9 with the symbol missing and bound lazily: the call cannot be resolved
\* and the loader terminates the process.
SymbolLookupError(i) ==
    /\ alive
    /\ pc[i] = "L9"
    /\ ~resolved
    /\ pc' = [pc EXCEPT ![i] = "killed"]
    /\ alive' = FALSE
    /\ UNCHANGED << exports, arg, entry, language, got, calls, ret,
                    lib, cached, resolved, bindNow >>

\* A variant of line 10 that checks the handle and raises an error on null.
Line10Checked(i) ==
    /\ alive
    /\ pc[i] = "L10"
    /\ IF language[i].data = NULL
       THEN /\ pc' = [pc EXCEPT ![i] = "error"]
            /\ UNCHANGED exports
       ELSE /\ exports' = [exports EXCEPT
                             ![arg[i]] = SetProperty(@, "language", language[i])]
            /\ pc' = [pc EXCEPT ![i] = "L11"]
    /\ UNCHANGED << arg, entry, language, got, calls, ret, lib,
                    cached, resolved, bindNow, alive >>

\* A variant of line 10 that takes ownership of the automaton: it publishes the
\* handle and releases the automaton behind it.
Line10Owning(i) ==
    /\ alive
    /\ pc[i] = "L10"
    /\ exports' = [exports EXCEPT
                     ![arg[i]] = SetProperty(@, "language", language[i])]
    /\ lib' = [lib EXCEPT !.live = @ \ {language[i].data}]
    /\ pc' = [pc EXCEPT ![i] = "L11"]
    /\ UNCHANGED << arg, entry, language, got, calls, ret,
                    cached, resolved, bindNow, alive >>

\* Line 10: exports["language"] = language;
Line10(i) ==
    /\ alive
    /\ pc[i] = "L10"
    /\ exports' = [exports EXCEPT
                     ![arg[i]] = SetProperty(@, "language", language[i])]
    /\ pc' = [pc EXCEPT ![i] = "L11"]
    /\ UNCHANGED << arg, entry, language, got, calls, ret, lib,
                    cached, resolved, bindNow, alive >>

\* A variant of line 11 that returns a new object instead of `exports`.
Line11FreshObject(i) ==
    /\ alive
    /\ pc[i] = "L11"
    /\ ret' = [ret EXCEPT ![i] = 0]
    /\ pc' = [pc EXCEPT ![i] = "done"]
    /\ UNCHANGED << exports, arg, entry, language, got, calls, lib,
                    cached, resolved, bindNow, alive >>

\* Line 11: return exports;
Line11(i) ==
    /\ alive
    /\ pc[i] = "L11"
    /\ ret' = [ret EXCEPT ![i] = arg[i]]
    /\ pc' = [pc EXCEPT ![i] = "done"]
    /\ UNCHANGED << exports, arg, entry, language, got, calls, lib,
                    cached, resolved, bindNow, alive >>

Next ==
    \/ \E i \in Invocations, c \in Containers : Load(i, c)
    \/ \E i \in Invocations : LoadFail(i)
    \/ \E i \in Invocations : Line8(i)
    \/ \E i \in Invocations : Line9(i)
    \/ \E i \in Invocations : SymbolLookupError(i)
    \/ \E i \in Invocations : Line10(i)
    \/ \E i \in Invocations : Line11(i)

Spec == Init /\ [][Next]_vars

(***************************************************************************)
(* What the claims are stated with.                                        *)
(***************************************************************************)

\* The value the contract expects under `name`: the string "coral".
Coral == [type |-> "string", str |-> "coral", data |-> NULL]

\* An external value wrapping exactly the pointer p.
Wrapping(p) == [type |-> "external", str |-> "", data |-> p]

Has(c, k) == k \in DOMAIN exports[c]

\* Container c holds the bridge's name entry / a handle entry of the bridge.
HasCoralName(c) == Has(c, "name") /\ exports[c]["name"] = Coral
HasHandle(c) == Has(c, "language") /\ exports[c]["language"].type = "external"

\* Invocation i has called the entry point and the call has returned.
EntryReturned(i) == calls[i] >= 1 /\ pc[i] \in {"L10", "L11", "done"}

\* The step in which invocation i returns.
Returns(i) == pc[i] = "L11" /\ pc'[i] = "done"

\* No invocation other than i and j has been given one of their containers.
Undisturbed(i, j) ==
    \A k \in Invocations \ {i, j} : arg[k] \notin {arg[i], arg[j]}

(***************************************************************************)
(* C1: whenever Init returns, on any container and in any state of the     *)
(* process, it returns the container it was given, and that container maps *)
(* `name` to the string "coral" and `language` to the handle the entry     *)
(* point returned to this invocation.                                      *)
(***************************************************************************)
C1_InitReturnsPopulatedContainer ==
    [][ \A i \in Invocations :
          Returns(i) =>
            /\ arg[i] \in Containers
            /\ ret'[i] = arg[i]
            /\ "name" \in DOMAIN exports'[arg[i]]
            /\ exports'[arg[i]]["name"] = Coral
            /\ "language" \in DOMAIN exports'[arg[i]]
            /\ exports'[arg[i]]["language"] = Wrapping(got[i]) ]_vars

\* A later load has returned the container an earlier load had already
\* populated, with a live handle in it.
C1_Witness ==
    \E i, j \in Invocations :
        /\ i # j
        /\ pc[i] = "done" /\ pc[j] = "done"
        /\ arg[i] = arg[j]
        /\ ret[j] = arg[j]
        /\ entry[j] # entry[i]
        /\ got[j] # NULL
        /\ exports[arg[j]]["name"] = Coral
        /\ exports[arg[j]]["language"] = Wrapping(got[j])

(***************************************************************************)
(* C2 as stated: whenever Init returns, the container holds exactly the    *)
(* keys `name` and `language`.                                             *)
(***************************************************************************)
C2_ExactlyTwoKeys ==
    [][ \A i \in Invocations :
          Returns(i) => DOMAIN exports'[arg[i]] = Descriptor ]_vars

(***************************************************************************)
(* C2 amended: whenever Init returns, the container holds the keys `name`  *)
(* and `language` and, besides them, exactly the keys it held at entry; so *)
(* a container that was empty at entry holds exactly the two.              *)
(***************************************************************************)
C2_KeysAtEntryPlusDescriptor ==
    [][ \A i \in Invocations :
          Returns(i) =>
            /\ DOMAIN exports'[arg[i]] = (DOMAIN entry[i]) \cup Descriptor
            /\ entry[i] = EmptyObject =>
                 DOMAIN exports'[arg[i]] = Descriptor ]_vars

\* One load has returned a container that was empty at entry, another one a
\* container that carried an unrelated key.
C2_Witness ==
    \E i, j \in Invocations :
        /\ pc[i] = "done" /\ pc[j] = "done"
        /\ entry[i] = EmptyObject
        /\ DOMAIN exports[arg[i]] = Descriptor
        /\ DOMAIN entry[j] = {"other"}
        /\ DOMAIN exports[arg[j]] = Keys

(***************************************************************************)
(* C3: the value published under `language` wraps exactly the pointer the  *)
(* entry point returned to the same invocation; it is non-null whenever    *)
(* that pointer is.                                                        *)
(***************************************************************************)
C3_HandlePassThrough ==
    \A i \in Invocations :
        /\ EntryReturned(i) => language[i] = Wrapping(got[i])
        /\ pc[i] = "L11" =>
             /\ Has(arg[i], "language")
             /\ exports[arg[i]]["language"] = Wrapping(got[i])
             /\ got[i] # NULL => exports[arg[i]]["language"].data # NULL

\* An invocation has published a non-null handle that is not the first address
\* the library hands out.
C3_Witness ==
    \E i \in Invocations :
        /\ pc[i] = "L11"
        /\ got[i] > 1
        /\ exports[arg[i]]["language"].data = got[i]

(***************************************************************************)
(* C4 as stated: in every state in which a part of the descriptor (the     *)
(* bridge's `name` entry or a handle under `language`) is present in a     *)
(* container, the entry point has returned to an invocation on that        *)
(* container and the handle it returned is non-null.                       *)
(***************************************************************************)
C4_NoPartBeforeEntryPoint ==
    \A c \in Containers :
        (HasCoralName(c) \/ HasHandle(c)) =>
            \E i \in Invocations :
                arg[i] = c /\ EntryReturned(i) /\ got[i] # NULL

(***************************************************************************)
(* C4 amended: in every state in which a handle is present under           *)
(* `language`, the entry point has returned to an invocation on that       *)
(* container, which has written the entry, and the entry wraps the pointer *)
(* returned to it: non-null whenever that pointer is non-null.             *)
(***************************************************************************)
C4_HandleOnlyAfterEntryPoint ==
    \A c \in Containers :
        HasHandle(c) =>
            \E i \in Invocations :
                /\ arg[i] = c
                /\ calls[i] = 1
                /\ pc[i] \in {"L11", "done"}
                /\ exports[c]["language"] = Wrapping(got[i])
                /\ got[i] # NULL => exports[c]["language"].data # NULL

\* A container holds a non-null handle while another invocation, on another
\* container, has written `name` and not yet called the entry point.
C4_Witness ==
    \E i, j \in Invocations :
        /\ pc[i] = "L11" /\ HasHandle(arg[i]) /\ got[i] # NULL
        /\ pc[j] = "L9" /\ HasCoralName(arg[j]) /\ ~HasHandle(arg[j])

(***************************************************************************)
(* C5: two completed invocations, on the same container or on two, yield   *)
(* equal `name` values and, when the entry point caches its handle, equal  *)
(* `language` handles; each invocation has called the entry point once,    *)
(* and with a caching entry point at most one automaton was constructed.   *)
(***************************************************************************)
C5_Idempotence ==
    \A i, j \in Invocations :
        (pc[i] = "done" /\ pc[j] = "done") =>
            /\ exports[arg[i]]["name"] = exports[arg[j]]["name"]
            /\ calls[i] = 1 /\ calls[j] = 1
            /\ cached =>
                 /\ got[i] = got[j]
                 /\ exports[arg[i]]["language"] = exports[arg[j]]["language"]
                 /\ exports[arg[i]]["language"] = Wrapping(got[i])
                 /\ Cardinality(lib.live) <= 1

\* With a caching entry point, two invocations have completed on two containers
\* and hold the same non-null handle.
C5_Witness ==
    \E i, j \in Invocations :
        /\ i # j /\ arg[i] # arg[j]
        /\ cached
        /\ pc[i] = "done" /\ pc[j] = "done"
        /\ got[i] # NULL
        /\ exports[arg[i]]["language"] = exports[arg[j]]["language"]

(***************************************************************************)
(* C6: when the entry point returns a null handle, Init neither fails nor  *)
(* stops: lines 10 and 11 are executed like for any handle, the container  *)
(* holds `name` = "coral" and `language` = the null handle, and the        *)
(* container is returned.                                                  *)
(***************************************************************************)
C6_NullHandlePublished ==
    \A i \in Invocations :
        (calls[i] >= 1 /\ got[i] = NULL) =>
            /\ pc[i] \in {"L10", "L11", "done"}
            /\ alive
            /\ pc[i] = "L10" => ENABLED Line10(i)
            /\ pc[i] = "L11" =>
                 /\ ENABLED Line11(i)
                 /\ exports[arg[i]]["name"] = Coral
                 /\ exports[arg[i]]["language"] = Wrapping(NULL)
            /\ pc[i] = "done" => ret[i] = arg[i]

\* An invocation that got a null handle has returned its container, which
\* holds the null handle.
C6_Witness ==
    \E i \in Invocations :
        /\ pc[i] = "done"
        /\ got[i] = NULL
        /\ ret[i] = arg[i]
        /\ exports[arg[i]]["name"] = Coral
        /\ exports[arg[i]]["language"] = Wrapping(NULL)

(***************************************************************************)
(* C7 as stated: when the entry point is unresolved, no container ever     *)
(* holds a part of the descriptor only (`name` without `language`).        *)
(***************************************************************************)
C7_NoPartialExports ==
    ~resolved =>
        \A c \in Containers : ~(HasCoralName(c) /\ ~HasHandle(c))

(***************************************************************************)
(* C7 amended: when the entry point is unresolved, no invocation gets past *)
(* the call of line 9: `language` is never written and no container is     *)
(* ever returned.  With symbols bound at load, Init is not entered and the *)
(* containers stay as they were; with symbols bound at first call, Init    *)
(* writes `name` and the process is terminated at the call.                *)
(***************************************************************************)
C7_UnresolvedNeverReturns ==
    ~resolved =>
        /\ \A i \in Invocations :
             /\ pc[i] \in {"idle", "loadfailed", "L8", "L9", "killed"}
             /\ calls[i] = 0
             /\ ret[i] = 0
             /\ (pc[i] = "L9" /\ alive) =>
                  ~ENABLED Line9(i) /\ ENABLED SymbolLookupError(i)
        /\ \A c \in Containers : ~HasHandle(c)
        /\ bindNow =>
             /\ \A i \in Invocations : pc[i] \in {"idle", "loadfailed"}
             /\ \A c \in Containers : ~HasCoralName(c)

\* The symbol is unresolved and bound lazily: the process has been terminated
\* at the call of line 9, after `name` was written.
C7_Witness ==
    \E i \in Invocations :
        /\ ~resolved
        /\ pc[i] = "killed"
        /\ ~alive
        /\ HasCoralName(arg[i])
        /\ ~HasHandle(arg[i])

(***************************************************************************)
(* C8: a step of Init changes nothing but the `name` and `language`        *)
(* entries of its own container and, at the call of line 9 only, the       *)
(* library's static state: every other key keeps its presence and value,   *)
(* other containers are untouched, and no automaton is ever released.      *)
(***************************************************************************)
C8_Frame ==
    [][ /\ \A c \in Containers :
             /\ \A k \in Keys \ Descriptor :
                  /\ (k \in DOMAIN exports'[c]) = (k \in DOMAIN exports[c])
                  /\ k \in DOMAIN exports[c] => exports'[c][k] = exports[c][k]
             /\ exports'[c] # exports[c] =>
                  /\ \E i \in Invocations :
                        arg[i] = c /\ pc[i] \in {"L8", "L10"} /\ pc'[i] # pc[i]
                  /\ \A d \in Containers \ {c} : exports'[d] = exports[d]
        /\ lib' # lib =>
             \E i \in Invocations : pc[i] = "L9" /\ pc'[i] = "L10"
        /\ lib.live \subseteq lib'.live ]_vars

\* An invocation has completed on a container that carried an unrelated key,
\* which is still there, while the other containers are as they were at the
\* start and the automaton behind the handle is alive.
C8_Witness ==
    \E i \in Invocations :
        /\ pc[i] = "done"
        /\ DOMAIN entry[i] = {"other"}
        /\ exports[arg[i]]["other"] = Legacy
        /\ got[i] # NULL /\ got[i] \in lib.live
        /\ \A d \in Containers \ {arg[i]} : exports[d] \in InitialObjects

(***************************************************************************)
(* C9: for two invocations on two distinct containers, however their steps *)
(* interleave, once each has written its entries its container holds       *)
(* `name` = "coral" and `language` = the handle returned to that very      *)
(* invocation (as long as no third invocation is given the container).     *)
(***************************************************************************)
C9_NoSharedState ==
    \A i, j \in Invocations :
        ( /\ i # j
          /\ arg[i] \in Containers /\ arg[j] \in Containers
          /\ arg[i] # arg[j]
          /\ pc[i] \in {"L11", "done"} /\ pc[j] \in {"L11", "done"}
          /\ Undisturbed(i, j) ) =>
            /\ exports[arg[i]]["name"] = Coral
            /\ exports[arg[j]]["name"] = Coral
            /\ exports[arg[i]]["language"] = Wrapping(got[i])
            /\ exports[arg[j]]["language"] = Wrapping(got[j])

\* Two invocations are in flight at the same time, each about to return, and
\* hold different handles, each in its own container.
C9_Witness ==
    \E i, j \in Invocations :
        /\ i # j
        /\ pc[i] = "L11" /\ pc[j] = "L11"
        /\ arg[i] # arg[j]
        /\ got[i] # got[j] /\ got[i] # NULL /\ got[j] # NULL
        /\ exports[arg[i]]["language"] = Wrapping(got[i])
        /\ exports[arg[j]]["language"] = Wrapping(got[j])

(***************************************************************************)
(* C10: an invocation goes through: write `name`, call the entry point     *)
(* once, write `language`, return.  So the entry point has been called     *)
(* exactly once from line 10 on and not before; in a container that was    *)
(* empty at entry `language` is present only with `name` = "coral"; and    *)
(* `name` changes in the step of line 8 only, `language` in the step of    *)
(* line 10 only.                                                           *)
(***************************************************************************)
C10_StepOrder ==
    /\ [](\A i \in Invocations :
            /\ calls[i] = (IF pc[i] \in {"L10", "L11", "done"} THEN 1 ELSE 0)
            /\ ( /\ InFlight(i) \/ pc[i] = "done"
                 /\ entry[i] = EmptyObject
                 /\ Has(arg[i], "language") )
               => HasCoralName(arg[i]))
    /\ [][ /\ \A i \in Invocations :
                pc'[i] # pc[i] =>
                  << pc[i], pc'[i] >> \in
                     { << "idle", "L8" >>, << "idle", "loadfailed" >>,
                       << "L8", "L9" >>, << "L9", "L10" >>,
                       << "L9", "killed" >>, << "L10", "L11" >>,
                       << "L11", "done" >> }
           /\ \A c \in Containers :
                /\ ( ("name" \in DOMAIN exports'[c]) # ("name" \in DOMAIN exports[c])
                     \/ ( "name" \in DOMAIN exports[c]
                          /\ exports'[c]["name"] # exports[c]["name"] ) )
                   => \E i \in Invocations :
                         arg[i] = c /\ pc[i] = "L8" /\ pc'[i] = "L9"
                /\ ( ("language" \in DOMAIN exports'[c])
                        # ("language" \in DOMAIN exports[c])
                     \/ ( "language" \in DOMAIN exports[c]
                          /\ exports'[c]["language"] # exports[c]["language"] ) )
                   => \E i \in Invocations :
                         arg[i] = c /\ pc[i] = "L10" /\ pc'[i] = "L11" ]_vars

\* An invocation on an empty container has written `name`, called the entry
\* point once and is about to write `language`.
C10_Witness ==
    \E i \in Invocations :
        /\ pc[i] = "L10"
        /\ entry[i] = EmptyObject
        /\ calls[i] = 1
        /\ DOMAIN exports[arg[i]] = {"name"}
        /\ HasCoralName(arg[i])
====
